---- MODULE Spec2Model ----
(***************************************************************************)
(* A model of EnhancedDetectionEngine (src/detection.py): the frame loop   *)
(* of process_video, the clip recorder it drives, the pause/resume/stop    *)
(* flags set from another thread, and generate_report.                     *)
(*                                                                         *)
(* Units.  Distances and confidences are in tenths (0.5 is 5).             *)
(* clip_duration is in half seconds, so that fps * clip_duration can be a  *)
(* non-integer: int(fps * clip_duration) is (fps * clip_duration) \div 2.  *)
(* Both callbacks are supplied, as the only caller does (src/main.py       *)
(* 327-331).  _detect_mask and the button handlers and detection thread of *)
(* FaceRecognitionApp (src/main.py) have specifications of their own.      *)
(***************************************************************************)
EXTENDS Integers, Sequences, FiniteSets, TLC

\* ---------------------------------------------------------------- bounds
MaxFrames == 2          \* largest CAP_PROP_FRAME_COUNT of a video
MaxCalls == 2           \* process_video calls on the engine
MaxFaces == 2           \* faces found in one frame
MaxHistory == 2         \* detection records the engine holds
MaxLoadPaths == 5       \* paths given to load_reference_images in LoadSpec
MaxTime == 3            \* half seconds the clock of ClockSpec runs for
MaxRefs == 2            \* reference encodings of the engine of MatchSpec
MaxPixels == 3          \* pixels of the face region of MaskSpec
MaxStarts == 3          \* engines the application of AppSpec creates

\* ------------------------------------------------------------ input values
FrameSkips == {1, 2}          \* configured frame_skip
ClipDurations == {1, 3}       \* configured clip_duration_seconds, in half seconds
FpsValues == {1, 2}           \* CAP_PROP_FPS of a video, frames per second
PathCounts == {0, 1}          \* paths given to load_reference_images in Spec

\* ------------------------------------------------------ program constants
detection_threshold == 5      \* config.py:24, in tenths
max_reference_images == 4     \* config.py:27
default_mask_std_threshold == 20    \* config.py:25

None == 0                     \* current_clip_writer = None

\* generate_report was not called.
NoReport == [called |-> FALSE, written |-> FALSE, path |-> 0, records |-> << >>]

VARIABLES
    frame_skip,             \* self.frame_skip
    clip_duration,          \* self.clip_duration, in half seconds
    reference_encodings,    \* self.reference_encodings
    matches,                \* self.matches
    report_data,            \* self.report_data
    detection_path,         \* self.detection_path
    pause_event,            \* self.pause_event.is_set()
    stop_event,             \* self.stop_event.is_set()
    current_clip_writer,    \* self.current_clip_writer: None or an index of clips
    clip_frames_remaining,  \* self.clip_frames_remaining
    clips,                  \* the cv2.VideoWriter objects created so far
    pc,                     \* where the worker is in process_video
    total_frames,           \* local of process_video
    fps,                    \* local of process_video
    current_frame,          \* local of process_video
    match_count,            \* local of process_video
    frames_read,            \* successful cap.read() calls of the current call
    progress_log,           \* arguments of progress_callback, current call
    frame_log,              \* frames handed to video_frame_callback, current call
    report,                 \* what generate_report did in the current call
    report_files,           \* names of the report files in the reports folder
    now,                    \* the clock, in half seconds
    loop_exit,              \* how the frame loop of the current call ended
    calls,                  \* process_video calls made so far
    retval,                 \* value the current call returned, 0 before it does
    given_paths,            \* LoadSpec: argument of load_reference_images
    load_result,            \* LoadSpec: its return value, "none" before
    face_comparisons,       \* MatchSpec: compare_faces and face_distance results
                            \* of the faces of the frame analysed last
    mask_std_threshold,     \* self.mask_std_threshold
    face_region,            \* MaskSpec: grey levels of the argument of
                            \* _detect_mask, after cvtColor
    has_mask,               \* MaskSpec: its return value, "none" before
    detector,               \* AppSpec: self.detector of the application,
                            \* None or an index of engines
    engines,                \* AppSpec: the engines created by start_detection
    workers,                \* AppSpec: the detection threads started
    start_button,           \* AppSpec: state of the Start Detection button
    pause_button,           \* AppSpec: state of the Pause button
    pause_button_text,      \* AppSpec: its text, "Pause" or "Resume"
    stop_button,            \* AppSpec: state of the Stop button
    results_button          \* AppSpec: state of the Results button

vars == << frame_skip, clip_duration, reference_encodings, matches, report_data,
           detection_path, pause_event, stop_event, current_clip_writer,
           clip_frames_remaining, clips, pc, total_frames, fps, current_frame,
           match_count, frames_read, progress_log, frame_log, report,
           report_files, loop_exit, calls, retval, given_paths, load_result,
           face_comparisons, now, mask_std_threshold, face_region, has_mask,
           detector, engines, workers, start_button, pause_button,
           pause_button_text, stop_button, results_button >>

config_vars == << frame_skip, clip_duration >>
flag_vars == << pause_event, stop_event >>
clip_vars == << current_clip_writer, clip_frames_remaining, clips >>
history_vars == << matches, report_data, detection_path >>
local_vars == << total_frames, fps, current_frame, match_count, frames_read >>
callback_vars == << progress_log, frame_log >>
load_vars == << given_paths, load_result >>
report_vars == << report, report_files >>
mask_vars == << mask_std_threshold, face_region, has_mask >>
button_vars == << start_button, pause_button, pause_button_text, stop_button,
                  results_button >>
app_vars == << detector, engines, workers, button_vars >>
aux_vars == << mask_vars, app_vars >>
env_vars == << now, load_vars, face_comparisons, aux_vars >>
engine_vars == << config_vars, reference_encodings, history_vars, flag_vars,
                  clip_vars, pc, local_vars, callback_vars, report_vars,
                  loop_exit, calls, retval >>

\* __init__: the engine as constructed, for some configuration.
Constructed ==
    /\ frame_skip \in FrameSkips
    /\ clip_duration \in ClipDurations
    /\ reference_encodings = << >>
    /\ matches = << >>
    /\ report_data = << >>
    /\ detection_path = << >>
    /\ pause_event = FALSE
    /\ stop_event = FALSE
    /\ current_clip_writer = None
    /\ clip_frames_remaining = 0
    /\ clips = << >>
    /\ pc = "idle"
    /\ total_frames = 0
    /\ fps = 1
    /\ current_frame = 0
    /\ match_count = 0
    /\ frames_read = 0
    /\ progress_log = << >>
    /\ frame_log = << >>
    /\ report = NoReport
    /\ loop_exit = "none"
    /\ calls = 0
    /\ retval = 0
    /\ load_result = "none"
    /\ face_comparisons = << >>
    /\ report_files = {}
    /\ now = 0

\* _detect_mask has not been called; the threshold is the default.
MaskIdle ==
    /\ mask_std_threshold = default_mask_std_threshold
    /\ face_region = << >>
    /\ has_mask = "none"

\* The application after setup_main_ui (src/main.py 37, 194-201): no
\* engine, no worker, only Start Detection enabled.
AppConstructed ==
    /\ detector = None
    /\ engines = << >>
    /\ workers = << >>
    /\ start_button = "normal"
    /\ pause_button = "disabled"
    /\ pause_button_text = "Pause"
    /\ stop_button = "disabled"
    /\ results_button = "disabled"

Init ==
    /\ Constructed
    /\ given_paths = << >>
    /\ MaskIdle
    /\ AppConstructed

\* pause(), resume(), stop(): called from the UI thread at any time.
pause ==
    /\ pause_event' = TRUE
    /\ UNCHANGED << env_vars, config_vars, reference_encodings, history_vars,
                    stop_event, clip_vars, pc, local_vars, callback_vars,
                    report_vars, loop_exit, calls, retval >>

\* resume() that clears both flags.
resume_clears_stop ==
    /\ pause_event' = FALSE
    /\ stop_event' = FALSE
    /\ UNCHANGED << env_vars, config_vars, reference_encodings, history_vars,
                    clip_vars, pc, local_vars, callback_vars, report_vars,
                    loop_exit, calls, retval >>

resume ==
    /\ pause_event' = FALSE
    /\ UNCHANGED << env_vars, config_vars, reference_encodings, history_vars,
                    stop_event, clip_vars, pc, local_vars, callback_vars,
                    report_vars, loop_exit, calls, retval >>

stop ==
    /\ stop_event' = TRUE
    /\ UNCHANGED << env_vars, config_vars, reference_encodings, history_vars,
                    pause_event, clip_vars, pc, local_vars, callback_vars,
                    report_vars, loop_exit, calls, retval >>

\* ------------------------------------------------- load_reference_images
\* What a path leads to: no file (os.path.exists is false), a file that
\* load_image_file cannot read (raises), an image without a face, an image
\* with a face.
PathKinds == {"missing", "unreadable", "noface", "face"}

PathSeqs == UNION { [1..n -> PathKinds] : n \in PathCounts }

\* TruncatePaths without the cut of line 54.
TruncatePathsKeepsAll(image_paths) == image_paths

\* lines 51-54: only the first max_reference_images paths are kept.
TruncatePaths(image_paths) ==
    IF Len(image_paths) > max_reference_images
    THEN SubSeq(image_paths, 1, max_reference_images)
    ELSE image_paths

\* lines 55-67: one encoding per path that exists, loads and shows a face.
RECURSIVE LoadEncodings(_)
LoadEncodings(image_paths) ==
    IF image_paths = << >> THEN << >>
    ELSE (IF Head(image_paths) = "face" THEN << "enc" >> ELSE << >>)
         \o LoadEncodings(Tail(image_paths))

\* lines 68-72: True iff an encoding was loaded.
LoadReturn(encodings) == IF encodings = << >> THEN "False" ELSE "True"

\* The arguments of the load_reference_images call of LoadSpec.
LoadInputs == UNION { [1..n -> PathKinds] : n \in 0..MaxLoadPaths }

\* load_reference_images(given_paths), with its return value kept.
load_reference_images_given ==
    /\ pc = "idle"
    /\ load_result = "none"
    /\ reference_encodings' = LoadEncodings(TruncatePaths(given_paths))
    /\ load_result' = LoadReturn(reference_encodings')
    /\ UNCHANGED << now, given_paths, face_comparisons, aux_vars,
                    config_vars, history_vars, flag_vars, clip_vars, pc,
                    local_vars, callback_vars, report_vars, loop_exit, calls,
                    retval >>

\* load_reference_images, called on the engine before it processes a video.
load_reference_images ==
    /\ pc = "idle"
    /\ \E image_paths \in PathSeqs :
          reference_encodings' = LoadEncodings(TruncatePaths(image_paths))
    /\ UNCHANGED << env_vars, config_vars, history_vars, flag_vars, clip_vars,
                    pc, local_vars, callback_vars, report_vars, loop_exit,
                    calls, retval >>

\* ------------------------------------------------------------ _detect_mask
\* Grey levels of a pixel and thresholds that put a standard deviation
\* below, on and above the threshold: the regions <<0, 39>>, <<0, 40>> and
\* <<0, 41>> have the deviations 19.5, 20 and 20.5, a uniform region has 0.
GreyLevels == {0, 39, 40, 41}
MaskStdThresholds == {0, default_mask_std_threshold}

\* The grey image of a face region: cvtColor gives one level per pixel.
FaceRegions == UNION { [1..n -> GreyLevels] : n \in 1..MaxPixels }

RECURSIVE SumOf(_)
SumOf(seq) == IF seq = << >> THEN 0 ELSE Head(seq) + SumOf(Tail(seq))

\* np.std is sqrt(mean(abs(x - x.mean()) ** 2)).  With n pixels of sum S the
\* sum of the (n * x - S) ** 2 is n ** 3 times the variance.
ScaledSquaredDeviations(gray) ==
    LET n == Len(gray)
        S == SumOf(gray)
    IN  SumOf([i \in 1..n |-> (n * gray[i] - S) * (n * gray[i] - S)])

\* _detect_mask with <= for <.
DetectMaskAtOrBelow(gray, threshold) ==
    LET n == Len(gray)
    IN  /\ threshold >= 0
        /\ ScaledSquaredDeviations(gray) <= threshold * threshold * n * n * n

\* lines 86-88: std < self.mask_std_threshold; std is not negative, so it
\* is below a positive threshold iff its square is below the square.
DetectMask(gray, threshold) ==
    LET n == Len(gray)
    IN  /\ threshold > 0
        /\ ScaledSquaredDeviations(gray) < threshold * threshold * n * n * n

\* _detect_mask(face_region), with its return value kept.
detect_mask ==
    /\ has_mask = "none"
    /\ face_region # << >>
    /\ has_mask' = IF DetectMask(face_region, mask_std_threshold)
                   THEN "True" ELSE "False"
    /\ UNCHANGED << now, load_vars, face_comparisons, app_vars,
                    mask_std_threshold, face_region, engine_vars >>

\* ----------------------------------------------------------------- matcher
Distances == {4, 6}

\* compare_faces and face_distance of one face against one reference.
Comparison == [is_match : BOOLEAN, distance : Distances]

MaxOf(a, b) == IF a >= b THEN a ELSE b

\* MatchFrom that keeps the confidence of the last qualifying reference.
RECURSIVE MatchFromKeepsLast(_, _, _, _)
MatchFromKeepsLast(cmp, i, match_found, best_confidence) ==
    IF i > Len(cmp)
    THEN [match_found |-> match_found, best_confidence |-> best_confidence]
    ELSE IF cmp[i].is_match /\ cmp[i].distance <= detection_threshold
         THEN MatchFromKeepsLast(cmp, i + 1, TRUE, 10 - cmp[i].distance)
         ELSE MatchFromKeepsLast(cmp, i + 1, match_found, best_confidence)

\* lines 164-171: the loop over the references, from reference i on.
RECURSIVE MatchFrom(_, _, _, _)
MatchFrom(cmp, i, match_found, best_confidence) ==
    IF i > Len(cmp)
    THEN [match_found |-> match_found, best_confidence |-> best_confidence]
    ELSE IF cmp[i].is_match /\ cmp[i].distance <= detection_threshold
         THEN MatchFrom(cmp, i + 1, TRUE,
                        MaxOf(best_confidence, 10 - cmp[i].distance))
         ELSE MatchFrom(cmp, i + 1, match_found, best_confidence)

MatchFace(cmp) == MatchFrom(cmp, 1, FALSE, 0)

\* Every outcome the matcher can have on one face, over all comparison
\* results of that face with the loaded references.
FaceResults ==
    { MatchFace(cmp) : cmp \in [1..Len(reference_encodings) -> Comparison] }

\* The faces of one analysed frame, each given by its matcher outcome.
FaceSeqs == UNION { [1..n -> FaceResults] : n \in 0..MaxFaces }

\* The matched faces among those of a frame.
Matched(faces) == Cardinality({ i \in DOMAIN faces : faces[i].match_found })

\* The faces of a frame that keep the history within its bound.
FaceSeqsInBound ==
    { faces \in FaceSeqs : Len(matches) + Matched(faces) <= MaxHistory }

\* face_location of a face: (top, right, bottom, left).
FaceLocation == [top |-> 0, right |-> 2, bottom |-> 2, left |-> 0]

\* ------------------------------------------------------------ clip recorder
\* The part of the engine a frame-loop iteration changes, as one record.
EngineState ==
    [matches |-> matches, report_data |-> report_data,
     detection_path |-> detection_path, match_count |-> match_count,
     current_clip_writer |-> current_clip_writer,
     clip_frames_remaining |-> clip_frames_remaining, clips |-> clips]

\* int(fps * self.clip_duration), clip_duration in half seconds.
ClipFrames(f, duration) == (f * duration) \div 2

\* _start_video_clip: a new VideoWriter becomes the current one.
StartVideoClip(st, f) ==
    [st EXCEPT !.clips = Append(st.clips, [written |-> 0, released |-> 0]),
               !.current_clip_writer = Len(st.clips) + 1,
               !.clip_frames_remaining = ClipFrames(f, clip_duration)]

\* lines 146-151: write the frame to the active clip, close it at 0.
WriteClipFrame(st) ==
    IF st.current_clip_writer # None
    THEN LET w == st.current_clip_writer
             left == st.clip_frames_remaining - 1
             wrote == [st EXCEPT !.clips[w].written = @ + 1,
                                 !.clip_frames_remaining = left]
         IN  IF left <= 0
             THEN [wrote EXCEPT !.clips[w].released = @ + 1,
                                !.current_clip_writer = None]
             ELSE wrote
    ELSE st

\* ProcessFace without the test of line 200: every match starts a clip.
ProcessFaceAlwaysStarts(st, face, frame, f) ==
    IF face.match_found
    THEN LET center == << (FaceLocation.left + FaceLocation.right) \div 2,
                          (FaceLocation.top + FaceLocation.bottom) \div 2 >>
             detection_info == [frame |-> frame,
                                confidence |-> face.best_confidence]
         IN  StartVideoClip([st EXCEPT
                                !.detection_path = Append(@, center),
                                !.matches = Append(@, detection_info),
                                !.report_data = Append(@, detection_info),
                                !.match_count = @ + 1], f)
    ELSE st

\* ProcessFace that restarts the count of the active session on a match.
ProcessFaceRestartsCount(st, face, frame, f) ==
    IF face.match_found
    THEN LET center == << (FaceLocation.left + FaceLocation.right) \div 2,
                          (FaceLocation.top + FaceLocation.bottom) \div 2 >>
             detection_info == [frame |-> frame,
                                confidence |-> face.best_confidence]
             recorded == [st EXCEPT
                             !.detection_path = Append(@, center),
                             !.matches = Append(@, detection_info),
                             !.report_data = Append(@, detection_info),
                             !.match_count = @ + 1]
         IN  IF recorded.current_clip_writer = None
             THEN StartVideoClip(recorded, f)
             ELSE [recorded EXCEPT
                      !.clip_frames_remaining = ClipFrames(f, clip_duration)]
    ELSE st

\* ProcessFace without the append of line 197.
ProcessFaceSkipsReportData(st, face, frame, f) ==
    IF face.match_found
    THEN LET center == << (FaceLocation.left + FaceLocation.right) \div 2,
                          (FaceLocation.top + FaceLocation.bottom) \div 2 >>
             detection_info == [frame |-> frame,
                                confidence |-> face.best_confidence]
             recorded == [st EXCEPT
                             !.detection_path = Append(@, center),
                             !.matches = Append(@, detection_info),
                             !.match_count = @ + 1]
         IN  IF recorded.current_clip_writer = None
             THEN StartVideoClip(recorded, f)
             ELSE recorded
    ELSE st

\* lines 172-201: one face of an analysed frame.
ProcessFace(st, face, frame, f) ==
    IF face.match_found
    THEN LET center == << (FaceLocation.left + FaceLocation.right) \div 2,
                          (FaceLocation.top + FaceLocation.bottom) \div 2 >>
             detection_info == [frame |-> frame,
                                confidence |-> face.best_confidence]
             recorded == [st EXCEPT
                             !.detection_path = Append(@, center),
                             !.matches = Append(@, detection_info),
                             !.report_data = Append(@, detection_info),
                             !.match_count = @ + 1]
         IN  IF recorded.current_clip_writer = None
             THEN StartVideoClip(recorded, f)
             ELSE recorded
    ELSE st

\* line 163: the faces of the frame, in order.
RECURSIVE ProcessFaces(_, _, _, _)
ProcessFaces(st, faces, frame, f) ==
    IF faces = << >> THEN st
    ELSE ProcessFaces(ProcessFace(st, Head(faces), frame, f), Tail(faces),
                      frame, f)

\* The iteration's changes, written back to the engine.
SetEngineState(st) ==
    /\ matches' = st.matches
    /\ report_data' = st.report_data
    /\ detection_path' = st.detection_path
    /\ match_count' = st.match_count
    /\ current_clip_writer' = st.current_clip_writer
    /\ clip_frames_remaining' = st.clip_frames_remaining
    /\ clips' = st.clips

\* ----------------------------------------------------------- process_video
\* line 236: strftime("%Y%m%d_%H%M%S") of the clock, the second the
\* half-second t lies in; it is the only varying part of the file name.
ReportStamp(t) == t \div 2

\* lines 184-187: the file the face crop of a match is written to,
\* match_<strftime("%Y%m%d%H%M%S")>_<current_frame>.jpg in the output
\* folder: the second the clock is in and the frame index are its only
\* varying parts.  The faces of one frame are handled at one reading t of
\* the clock.
ImagePath(t, frame) == << t \div 2, frame >>

\* generate_report: the file is written, or the write fails and the
\* exception is caught (lines 238-252).
generate_report ==
    \E written \in BOOLEAN :
        /\ report' = [called |-> TRUE, written |-> written,
                      path |-> ReportStamp(now),
                      records |-> IF written THEN report_data ELSE << >>]
        /\ report_files' = IF written
                           THEN report_files \cup {ReportStamp(now)}
                           ELSE report_files

\* Finish that returns without a report when stop() ended the loop.
FinishNoReportOnStop(how) ==
    /\ IF how = "stop"
       THEN UNCHANGED << report, report_files >>
       ELSE generate_report
    /\ retval' = match_count
    /\ loop_exit' = how
    /\ pc' = "done"

\* Finish whose return value is lost when the report cannot be written.
FinishFailsWithReport(how) ==
    /\ generate_report
    /\ retval' = IF report'.written THEN match_count ELSE 0
    /\ loop_exit' = how
    /\ pc' = "done"

\* lines 211-214: cap.release(), generate_report(), return match_count.
Finish(how) ==
    /\ generate_report
    /\ retval' = match_count
    /\ loop_exit' = how
    /\ pc' = "done"

\* The loop condition without its test of the stop flag.
LoopConditionIgnoresStop == current_frame < total_frames

\* line 136: the condition of the while loop.
LoopCondition == ~stop_event /\ current_frame < total_frames

\* A pause test that always finds the flag set.
PauseAlwaysObserved == TRUE

\* A pause test that never sees the flag.
PauseNeverObserved == FALSE

\* line 137: the pause test.
PauseObserved == pause_event

\* A test of line 154 that selects every frame.
ShouldAnalyzeAll(frame) == TRUE

\* A test of line 154 that selects the frames it is to skip.
ShouldAnalyzeOthers(frame) == frame % frame_skip # 0

\* line 154: a frame is analysed when its index is a multiple of frame_skip.
ShouldAnalyze(frame) == frame % frame_skip = 0

\* process_video_unopened that falls through to lines 211-214.
process_video_unopened_with_report ==
    /\ pc \in {"idle", "done", "raised"}
    /\ calls < MaxCalls
    /\ calls' = calls + 1
    /\ retval' = 0
    /\ loop_exit' = "unopened"
    /\ pc' = "done"
    /\ total_frames' = 0
    /\ fps' = 1
    /\ current_frame' = 0
    /\ match_count' = 0
    /\ frames_read' = 0
    /\ progress_log' = << >>
    /\ frame_log' = << >>
    /\ generate_report
    /\ UNCHANGED << env_vars, config_vars, reference_encodings, history_vars,
                    flag_vars, clip_vars >>

\* lines 123-126: the video cannot be opened; the call returns 0 before
\* it sets a local or reads a frame.
process_video_unopened ==
    /\ pc \in {"idle", "done", "raised"}
    /\ calls < MaxCalls
    /\ calls' = calls + 1
    /\ retval' = 0
    /\ loop_exit' = "unopened"
    /\ pc' = "done"
    /\ total_frames' = 0
    /\ fps' = 1
    /\ current_frame' = 0
    /\ match_count' = 0
    /\ frames_read' = 0
    /\ progress_log' = << >>
    /\ frame_log' = << >>
    /\ report' = NoReport
    /\ UNCHANGED << report_files, env_vars, config_vars, reference_encodings,
                    history_vars, flag_vars, clip_vars >>

\* process_video_start that clears the stop flag for the new run.
process_video_start_clears_stop ==
    /\ pc \in {"idle", "done", "raised"}
    /\ calls < MaxCalls
    /\ calls' = calls + 1
    /\ \E n \in 0..MaxFrames : total_frames' = n
    /\ \E f \in FpsValues : fps' = f
    /\ current_frame' = 0
    /\ match_count' = 0
    /\ frames_read' = 0
    /\ loop_exit' = "none"
    /\ pc' = "while"
    /\ progress_log' = << >>
    /\ frame_log' = << >>
    /\ report' = NoReport
    /\ retval' = 0
    /\ stop_event' = FALSE
    /\ UNCHANGED << report_files, env_vars, config_vars, reference_encodings,
                    history_vars, pause_event, clip_vars >>

\* lines 123-134: the video opens; the locals are set.
process_video_start ==
    /\ pc \in {"idle", "done", "raised"}
    /\ calls < MaxCalls
    /\ calls' = calls + 1
    /\ \E n \in 0..MaxFrames : total_frames' = n
    /\ \E f \in FpsValues : fps' = f
    /\ current_frame' = 0
    /\ match_count' = 0
    /\ frames_read' = 0
    /\ loop_exit' = "none"
    /\ pc' = "while"
    /\ progress_log' = << >>
    /\ frame_log' = << >>
    /\ report' = NoReport
    /\ UNCHANGED report_files
    /\ retval' = 0
    /\ UNCHANGED << env_vars, config_vars, reference_encodings, history_vars,
                    flag_vars, clip_vars >>

\* lines 136-139: the loop test and the pause test.  The loop ends
\* (lines 211-214), or the iteration sleeps 0.1 s and comes back here, or
\* it goes on to read a frame.  The two flags are read one after the
\* other; a flag set between the two reads has the effect it has when set
\* just before or just after this step.
loop_test ==
    /\ pc = "while"
    /\ IF LoopCondition
       THEN /\ pc' = IF PauseObserved THEN "while" ELSE "body"
            /\ UNCHANGED << report_vars, retval, loop_exit >>
       ELSE Finish(IF current_frame < total_frames THEN "stop" ELSE "exhausted")
    /\ UNCHANGED << env_vars, config_vars, reference_encodings, history_vars,
                    flag_vars, clip_vars, local_vars, callback_vars, calls >>

\* lines 141-143: cap.read() fails; break, then lines 211-214.
read_fails ==
    /\ pc = "body"
    /\ Finish("eof")
    /\ UNCHANGED << env_vars, config_vars, reference_encodings, history_vars,
                    flag_vars, clip_vars, local_vars, callback_vars, calls >>

\* frame_skipped with the callbacks of lines 204-208 before its continue.
frame_skipped_with_callbacks ==
    /\ pc = "body"
    /\ ~ShouldAnalyze(current_frame)
    /\ frames_read' = frames_read + 1
    /\ SetEngineState(WriteClipFrame(EngineState))
    /\ progress_log' = Append(progress_log, current_frame)
    /\ frame_log' = Append(frame_log, current_frame)
    /\ current_frame' = current_frame + 1
    /\ pc' = "while"
    /\ UNCHANGED << env_vars, config_vars, reference_encodings, flag_vars,
                    total_frames, fps, report_vars, loop_exit, calls,
                    retval >>

\* frame_skipped with the test of line 154 before the write of lines
\* 146-151.
frame_skipped_before_write ==
    /\ pc = "body"
    /\ ~ShouldAnalyze(current_frame)
    /\ frames_read' = frames_read + 1
    /\ SetEngineState(EngineState)
    /\ current_frame' = current_frame + 1
    /\ pc' = "while"
    /\ UNCHANGED << env_vars, config_vars, reference_encodings, flag_vars,
                    total_frames, fps, callback_vars, report_vars, loop_exit,
                    calls, retval >>

\* lines 141-156: a frame whose index is not a multiple of frame_skip.
frame_skipped ==
    /\ pc = "body"
    /\ ~ShouldAnalyze(current_frame)
    /\ frames_read' = frames_read + 1
    /\ SetEngineState(WriteClipFrame(EngineState))
    /\ current_frame' = current_frame + 1
    /\ pc' = "while"
    /\ UNCHANGED << env_vars, config_vars, reference_encodings, flag_vars,
                    total_frames, fps, callback_vars, report_vars, loop_exit,
                    calls, retval >>

\* frame_analysed with line 209 before the callbacks of lines 204-208.
frame_analysed_counts_first ==
    /\ pc = "body"
    /\ ShouldAnalyze(current_frame)
    /\ frames_read' = frames_read + 1
    /\ \E faces \in FaceSeqsInBound :
          SetEngineState(ProcessFaces(WriteClipFrame(EngineState), faces,
                                      current_frame, fps))
    /\ current_frame' = current_frame + 1
    /\ progress_log' = Append(progress_log, current_frame')
    /\ frame_log' = Append(frame_log, current_frame)
    /\ pc' = "while"
    /\ UNCHANGED << env_vars, config_vars, reference_encodings, flag_vars,
                    total_frames, fps, report_vars, loop_exit, calls,
                    retval >>

\* lines 141-209: a frame that is analysed, with the faces found in it.
frame_analysed ==
    /\ pc = "body"
    /\ ShouldAnalyze(current_frame)
    /\ frames_read' = frames_read + 1
    /\ \E faces \in FaceSeqsInBound :
          SetEngineState(ProcessFaces(WriteClipFrame(EngineState), faces,
                                      current_frame, fps))
    /\ progress_log' = Append(progress_log, current_frame)
    /\ frame_log' = Append(frame_log, current_frame)
    /\ current_frame' = current_frame + 1
    /\ pc' = "while"
    /\ UNCHANGED << env_vars, config_vars, reference_encodings, flag_vars,
                    total_frames, fps, report_vars, loop_exit, calls,
                    retval >>

\* The comparison results MatchSpec gives the matcher: a distance below
\* the threshold, one equal to it and one above it, each with either
\* answer of compare_faces.
GivenDistances == {3, 5, 6}

GivenComparison == [is_match : BOOLEAN, distance : GivenDistances]

GivenFaceCounts == {0, 1}

\* The faces of a frame of MatchSpec, each with its comparison results
\* against the loaded references.
GivenFaces ==
    UNION { [1..n -> [1..Len(reference_encodings) -> GivenComparison]] :
              n \in GivenFaceCounts }

\* lines 141-209, as frame_analysed, on faces given by their comparison
\* results, which are kept.
frame_analysed_given ==
    /\ pc = "body"
    /\ ShouldAnalyze(current_frame)
    /\ frames_read' = frames_read + 1
    /\ \E given \in GivenFaces :
          LET faces == [i \in DOMAIN given |-> MatchFace(given[i])]
          IN  /\ Len(matches) + Matched(faces) <= MaxHistory
              /\ face_comparisons' = given
              /\ SetEngineState(ProcessFaces(WriteClipFrame(EngineState),
                                            faces, current_frame, fps))
    /\ progress_log' = Append(progress_log, current_frame)
    /\ frame_log' = Append(frame_log, current_frame)
    /\ current_frame' = current_frame + 1
    /\ pc' = "while"
    /\ UNCHANGED << now, load_vars, aux_vars, config_vars,
                    reference_encodings, flag_vars, total_frames, fps,
                    report_vars, loop_exit, calls, retval >>

\* lines 158-201 raise: face detection, encoding, matching or the handling
\* of a matched face fails after the faces before it were handled.  Nothing
\* in process_video catches it.
analysis_raises ==
    /\ pc = "body"
    /\ ShouldAnalyze(current_frame)
    /\ frames_read' = frames_read + 1
    /\ \E faces \in FaceSeqsInBound :
          SetEngineState(ProcessFaces(WriteClipFrame(EngineState), faces,
                                      current_frame, fps))
    /\ loop_exit' = "error"
    /\ pc' = "raised"
    /\ UNCHANGED << env_vars, config_vars, reference_encodings, flag_vars,
                    total_frames, fps, current_frame, callback_vars,
                    report_vars, calls, retval >>

\* lines 181-182: the pixel centre of a matched face.
FaceCenter ==
    << (FaceLocation.left + FaceLocation.right) \div 2,
       (FaceLocation.top + FaceLocation.bottom) \div 2 >>

\* lines 184-195 raise: the record of a matched face fails (current_frame /
\* fps at line 191 when CAP_PROP_FPS is 0, cv2.imwrite at line 188) after
\* line 183 appended its centre and before lines 196-198 are reached; the
\* faces before it were handled.  Nothing in process_video catches it.
record_raises ==
    /\ pc = "body"
    /\ ShouldAnalyze(current_frame)
    /\ reference_encodings # << >>
    /\ frames_read' = frames_read + 1
    /\ \E faces \in FaceSeqsInBound :
          /\ Len(faces) < MaxFaces
          /\ LET st == ProcessFaces(WriteClipFrame(EngineState), faces,
                                    current_frame, fps)
             IN  SetEngineState([st EXCEPT
                                    !.detection_path = Append(@, FaceCenter)])
    /\ loop_exit' = "error"
    /\ pc' = "raised"
    /\ UNCHANGED << env_vars, config_vars, reference_encodings, flag_vars,
                    total_frames, fps, current_frame, callback_vars,
                    report_vars, calls, retval >>

Worker ==
    \/ loop_test
    \/ read_fails
    \/ frame_skipped
    \/ frame_analysed
    \/ analysis_raises

Next ==
    \/ load_reference_images
    \/ process_video_unopened
    \/ process_video_start
    \/ loop_test
    \/ read_fails
    \/ frame_skipped
    \/ frame_analysed
    \/ analysis_raises
    \/ pause
    \/ resume
    \/ stop

Spec == Init /\ [][Next]_vars

\* Time passes.
tick ==
    /\ now < MaxTime
    /\ now' = now + 1
    /\ UNCHANGED << load_vars, face_comparisons, aux_vars, engine_vars >>

NextClock ==
    \/ Next
    \/ tick

\* The engine with the clock that names its report files running.
ClockSpec == Init /\ [][NextClock]_vars

\* load_reference_images alone: a constructed engine, a call or more with
\* short arguments, then the call on given_paths.
InitLoad ==
    /\ Constructed
    /\ given_paths \in LoadInputs
    /\ MaskIdle
    /\ AppConstructed

NextLoad ==
    \/ load_reference_images
    \/ load_reference_images_given

LoadSpec == InitLoad /\ [][NextLoad]_vars

\* The matcher: an engine with 0 to MaxRefs reference encodings loaded,
\* at the loop test of its first process_video call (lines 123-134 done),
\* analyses frames whose faces are given by their comparison results.
InitMatch ==
    /\ frame_skip \in FrameSkips
    /\ clip_duration \in ClipDurations
    /\ \E n \in 0..MaxRefs : reference_encodings = [i \in 1..n |-> "enc"]
    /\ matches = << >>
    /\ report_data = << >>
    /\ detection_path = << >>
    /\ pause_event = FALSE
    /\ stop_event = FALSE
    /\ current_clip_writer = None
    /\ clip_frames_remaining = 0
    /\ clips = << >>
    /\ pc = "while"
    /\ total_frames \in 0..MaxFrames
    /\ fps \in FpsValues
    /\ current_frame = 0
    /\ match_count = 0
    /\ frames_read = 0
    /\ progress_log = << >>
    /\ frame_log = << >>
    /\ report = NoReport
    /\ report_files = {}
    /\ now = 0
    /\ loop_exit = "none"
    /\ calls = 1
    /\ retval = 0
    /\ given_paths = << >>
    /\ load_result = "none"
    /\ face_comparisons = << >>
    /\ MaskIdle
    /\ AppConstructed

NextMatch ==
    \/ loop_test
    \/ frame_skipped
    \/ frame_analysed_given

MatchSpec == InitMatch /\ [][NextMatch]_vars

\* ------------------------------------------------------------ application
\* FaceRecognitionApp (src/main.py): the handlers of the Start Detection,
\* Pause and Stop buttons, which run on the UI thread, and run_detection,
\* which runs on a thread of its own.  A disabled button delivers no
\* event.  An engine is seen from outside: its two flags and the number
\* of process_video calls that are in progress on it.
NewEngine == [pause_event |-> FALSE, stop_event |-> FALSE, running |-> 0]

\* start_detection (lines 289-341) with its inputs valid (a start that
\* fails the tests of lines 292-301 changes nothing): a new engine
\* replaces self.detector; when it loads no reference the handler returns
\* (lines 331-333), otherwise the buttons are set and a thread is started.
start_detection ==
    /\ start_button = "normal"
    /\ Len(engines) < MaxStarts
    /\ engines' = Append(engines, NewEngine)
    /\ detector' = Len(engines) + 1
    /\ \E loaded \in BOOLEAN :
          IF loaded
          THEN /\ pause_button' = "normal"
               /\ pause_button_text' = "Pause"
               /\ stop_button' = "normal"
               /\ start_button' = "disabled"
               /\ results_button' = "disabled"
               /\ workers' = Append(workers,
                                    [at |-> "started", engine |-> None])
          ELSE UNCHANGED << button_vars, workers >>
    /\ UNCHANGED << now, load_vars, face_comparisons, mask_vars,
                    engine_vars >>

\* run_detection, line 346: the thread reads self.detector and calls
\* process_video on the engine it finds there.
run_detection_calls ==
    /\ \E w \in DOMAIN workers :
          /\ workers[w].at = "started"
          /\ workers' = [workers EXCEPT ![w] = [at |-> "process_video",
                                                engine |-> detector]]
          /\ engines' = [engines EXCEPT ![detector].running = @ + 1]
    /\ UNCHANGED << now, load_vars, face_comparisons, mask_vars, detector,
                    button_vars, engine_vars >>

\* run_detection, lines 346-358: process_video returns or raises (the
\* flags and the video decide when) and the finally block sets the
\* buttons.
run_detection_returns ==
    /\ \E w \in DOMAIN workers :
          /\ workers[w].at = "process_video"
          /\ workers' = [workers EXCEPT ![w].at = "finished"]
          /\ engines' = [engines EXCEPT ![workers[w].engine].running = @ - 1]
    /\ results_button' = "normal"
    /\ start_button' = "normal"
    /\ pause_button' = "disabled"
    /\ stop_button' = "disabled"
    /\ UNCHANGED << now, load_vars, face_comparisons, mask_vars, detector,
                    pause_button_text, engine_vars >>

\* toggle_pause (lines 360-368), on the engine in self.detector.
toggle_pause ==
    /\ pause_button = "normal"
    /\ IF pause_button_text = "Pause"
       THEN /\ engines' = [engines EXCEPT ![detector].pause_event = TRUE]
            /\ pause_button_text' = "Resume"
       ELSE /\ engines' = [engines EXCEPT ![detector].pause_event = FALSE]
            /\ pause_button_text' = "Pause"
    /\ UNCHANGED << now, load_vars, face_comparisons, mask_vars, detector,
                    workers, start_button, pause_button, stop_button,
                    results_button, engine_vars >>

\* stop_detection (lines 370-379): the stop flag of the engine in
\* self.detector is set and Start Detection is enabled at once.
stop_detection ==
    /\ stop_button = "normal"
    /\ engines' = [engines EXCEPT ![detector].stop_event = TRUE]
    /\ start_button' = "normal"
    /\ pause_button' = "disabled"
    /\ stop_button' = "disabled"
    /\ UNCHANGED << now, load_vars, face_comparisons, mask_vars, detector,
                    workers, pause_button_text, results_button,
                    engine_vars >>

NextApp ==
    \/ start_detection
    \/ run_detection_calls
    \/ run_detection_returns
    \/ toggle_pause
    \/ stop_detection

\* The application: UI events and detection threads in any order.
AppSpec == Init /\ [][NextApp]_vars

\* _detect_mask alone: an engine with some threshold is given the grey
\* levels of a face region.
InitMask ==
    /\ Constructed
    /\ given_paths = << >>
    /\ AppConstructed
    /\ mask_std_threshold \in MaskStdThresholds
    /\ face_region \in FaceRegions
    /\ has_mask = "none"

NextMask == detect_mask

MaskSpec == InitMask /\ [][NextMask]_vars

NextRaise ==
    \/ Next
    \/ record_raises

\* The engine with the failure inside the record of a matched face, which
\* leaves a trajectory point without its detection record.
RaiseSpec == Init /\ [][NextRaise]_vars

\* The worker thread keeps running while process_video has a step to take.
FairSpec == Spec /\ WF_vars(Worker)

\* The worker polls the pause flag every 0.1 s (line 138): when the flag
\* is clear again and again, one of its polls finds it clear.
PollingSpec == Spec /\ SF_vars(Worker)

\* ------------------------------------------------------------------ claims
LoopStates == {"while", "body"}

\* The clip sessions that were opened and not released.
OpenClips == { i \in DOMAIN clips : clips[i].released = 0 }

\* C1: at most one clip recording session is active in every state: the
\* only VideoWriter that is open is the current one, and none is open
\* when current_clip_writer is None.
C1_AtMostOneSession ==
    /\ Cardinality(OpenClips) <= 1
    /\ current_clip_writer # None => OpenClips = {current_clip_writer}
    /\ current_clip_writer = None => OpenClips = {}

\* A second match was recorded while the first session was still active.
C1_Witness ==
    /\ Len(matches) >= 2
    /\ Len(clips) = 1
    /\ current_clip_writer = 1

\* C2: clip_frames_remaining is never negative.
C2_FramesRemainingNonNegative == clip_frames_remaining >= 0

\* C3: when the frame loop has ended by exhaustion, a failed read or
\* stop(), every clip session that was started has been closed exactly once.
C3_SessionClosedExactlyOnce ==
    (pc = "done" /\ loop_exit \in {"exhausted", "eof", "stop"})
        => \A i \in DOMAIN clips : clips[i].released = 1

\* C4: a process_video call that opened its video returns the length of
\* the detection history.
C4_ReturnEqualsHistoryLength ==
    (pc = "done" /\ loop_exit \in {"exhausted", "eof", "stop"})
        => /\ retval = Len(report_data)
           /\ retval = Len(matches)

\* The indices below n that are multiples of frame_skip, in order.
RECURSIVE AnalysedBelow(_)
AnalysedBelow(n) ==
    IF n = 0 THEN << >>
    ELSE IF (n - 1) % frame_skip = 0
         THEN Append(AnalysedBelow(n - 1), n - 1)
         ELSE AnalysedBelow(n - 1)

C6_AnalysisErrorIsolated == pc # "raised"

\* C7: once stop() has been called and the iteration in progress is over,
\* no further frame is read, and process_video returns, paused or not.
C7_StopEndsLoop ==
    /\ [][(stop_event /\ pc = "while")
             => (frames_read' = frames_read /\ pc' \in {"while", "done"})]_vars
    /\ (stop_event /\ pc = "while") ~> (pc = "done")

\* stop() ended a paused run before its frames were consumed.
C7_Witness ==
    /\ pc = "done"
    /\ loop_exit = "stop"
    /\ pause_event
    /\ frames_read >= 1
    /\ current_frame < total_frames

\* What a paused loop leaves alone.
NothingConsumed ==
    /\ frames_read' = frames_read
    /\ current_frame' = current_frame
    /\ clips' = clips
    /\ matches' = matches
    /\ report_data' = report_data

\* C8 as stated: while the pause flag is set and the stop flag is not, the
\* running loop consumes no frame, writes nothing, appends nothing and
\* does not end.
C8_PausedDoesNothing ==
    [][(pause_event /\ ~stop_event /\ pc \in LoopStates)
          => (NothingConsumed /\ pc' \in LoopStates)]_vars

\* C8, amended: an iteration that finds the pause flag set at its pause
\* test consumes no frame, writes nothing, appends nothing and leaves the
\* loop where it was; a paused, unstopped loop ends only when no frame is
\* left (current_frame >= total_frames); the frame index is the number of
\* frames read at every iteration boundary, so it is the same after
\* resume() as before pause().
C8_PausedIterationDoesNothing ==
    /\ [][(pause_event /\ ~stop_event /\ pc = "while"
              /\ current_frame < total_frames)
             => (NothingConsumed /\ pc' = "while")]_vars
    /\ [](pc \in LoopStates => current_frame = frames_read)

\* The loop is paused in mid video, at its pause test.
C8_Witness ==
    /\ pc = "while"
    /\ pause_event
    /\ ~stop_event
    /\ frames_read = 1
    /\ total_frames = 2

\* C9: when stop() ends the loop before total_frames frames were consumed,
\* the call runs generate_report, and the report it writes lists the whole
\* history.
C9_ReportAfterStop ==
    (pc = "done" /\ loop_exit = "stop")
        => /\ current_frame < total_frames
           /\ report.called
           /\ report.written => report.records = report_data

\* A stopped run with a record in its history has written its report.
C9_Witness ==
    /\ pc = "done"
    /\ loop_exit = "stop"
    /\ match_count >= 1
    /\ current_frame < total_frames
    /\ report.called
    /\ report.written
    /\ report.records = report_data

\* C10: when an exception ends the frame loop, the report of the run is
\* written.
C10_ReportAfterError == pc = "raised" => report.called

\* C11: a process_video call whose video cannot be opened returns 0 at
\* once: generate_report is not called, no callback is invoked, and the
\* detection history, the trajectory, the clip session and the two flags
\* are what they were before the call.
C11_UnopenedVideoChangesNothing ==
    [][(calls' = calls + 1 /\ loop_exit' = "unopened")
          => /\ pc' = "done"
             /\ retval' = 0
             /\ report' = NoReport
             /\ report_files' = report_files
             /\ progress_log' = << >>
             /\ frame_log' = << >>
             /\ frames_read' = 0
             /\ UNCHANGED << history_vars, clip_vars, flag_vars >>]_vars

\* A call on an unopenable video, made on an engine that holds a record
\* and an active clip session from an earlier call, while paused.
C11_Witness ==
    /\ pc = "done"
    /\ loop_exit = "unopened"
    /\ calls = 2
    /\ retval = 0
    /\ Len(matches) >= 1
    /\ current_clip_writer # None
    /\ pause_event
    /\ report = NoReport

\* The paths load_reference_images attempts: the first max_reference_images.
Attempted(paths) ==
    1 .. (IF Len(paths) > max_reference_images
          THEN max_reference_images ELSE Len(paths))

\* C12: load_reference_images attempts only the first max_reference_images
\* paths; the reference set it leaves has one encoding per attempted path
\* that exists and shows a face, so never more than max_reference_images;
\* it returns True iff that set is not empty, and when it returns False the
\* set is empty, whatever an earlier call had loaded.
C12_LoadKeepsValidOfFirstMax ==
    [][(load_result = "none" /\ load_result' # "none")
          => LET valid == { i \in Attempted(given_paths) :
                              given_paths[i] = "face" }
             IN  /\ Len(reference_encodings') = Cardinality(valid)
                 /\ Len(reference_encodings') <= max_reference_images
                 /\ load_result' = "True" <=> Len(reference_encodings') >= 1
                 /\ load_result' = "False" => reference_encodings' = << >>]_vars

\* Five paths were given, the fifth with a face; two of the first four
\* were valid and the call returned True with two encodings.
C12_Witness ==
    /\ Len(given_paths) = 5
    /\ given_paths[5] = "face"
    /\ Cardinality({ i \in 1..4 : given_paths[i] = "face" }) = 2
    /\ load_result = "True"
    /\ Len(reference_encodings) = 2

\* The largest element of a non-empty set of numbers.
Largest(S) == CHOOSE x \in S : \A y \in S : y <= x

\* The references that qualify for a face: is_match and a distance within
\* the threshold.
Qualifying(cmp) ==
    { i \in DOMAIN cmp :
        cmp[i].is_match /\ cmp[i].distance <= detection_threshold }

\* C13: a detected face is recorded as a confirmed match iff a reference
\* has is_match and distance <= detection_threshold; the confidence of its
\* record is the largest 1 - distance over those references; a face with no
\* such reference adds no record, no trajectory point and no clip.
C13_MatchIffQualifyingReference ==
    [][(frame_log' = Append(frame_log, current_frame)
           /\ Len(face_comparisons') = 1)
          => LET cmp == face_comparisons'[1]
             IN  IF Qualifying(cmp) # {}
                 THEN /\ Len(matches') = Len(matches) + 1
                      /\ matches'[Len(matches')] =
                            [frame |-> current_frame,
                             confidence |->
                                Largest({ 10 - cmp[i].distance :
                                            i \in Qualifying(cmp) })]
                      /\ report_data' = Append(report_data,
                                               matches'[Len(matches')])
                      /\ Len(detection_path') = Len(detection_path) + 1
                 ELSE /\ UNCHANGED history_vars
                      /\ Len(clips') = Len(clips)]_vars

\* A face compared with two references, both qualifying, the second at a
\* larger distance: the record holds the confidence of the first.
C13_Witness ==
    /\ Len(face_comparisons) = 1
    /\ Len(face_comparisons[1]) = 2
    /\ face_comparisons[1][1] = [is_match |-> TRUE, distance |-> 3]
    /\ face_comparisons[1][2] = [is_match |-> TRUE, distance |-> 5]
    /\ matches # << >>
    /\ matches[Len(matches)].confidence = 7

\* C14: a consumed frame undergoes face analysis iff its index is a
\* multiple of frame_skip; every consumed frame, analysed or not, is
\* offered to the clip recorder first (written when a session is active)
\* and, its iteration over, the frame index is one more.  An analysis that
\* raises ends the call inside the iteration.
C14_SkipRuleKeepsClipAndIndex ==
    [][(frames_read' = frames_read + 1)
          => /\ (current_frame % frame_skip = 0)
                    <=> (frame_log' = Append(frame_log, current_frame)
                            \/ pc' = "raised")
             /\ current_frame % frame_skip # 0
                    => UNCHANGED << history_vars, callback_vars >>
             /\ IF current_clip_writer # None
                THEN clips'[current_clip_writer].written
                        = clips[current_clip_writer].written + 1
                ELSE SubSeq(clips', 1, Len(clips)) = clips
             /\ pc' # "raised" => current_frame' = current_frame + 1]_vars

\* With frame_skip 2, frame 1 was not analysed, was written to the clip
\* that the match on frame 0 started, and the index went on to 2.
C14_Witness ==
    /\ frame_skip = 2
    /\ pc = "while"
    /\ current_frame = 2
    /\ progress_log = << 0 >>
    /\ Len(clips) = 1
    /\ clips[1].written = 1
    /\ matches # << >>
    /\ matches[Len(matches)].frame = 0

\* round(h / 2) for a number h of halves, a tie going to the even integer.
RoundHalves(h) ==
    LET q == h \div 2
    IN  IF h % 2 = 0 THEN q
        ELSE IF q % 2 = 0 THEN q ELSE q + 1

\* C15: when a session starts, clip_frames_remaining is set to
\* round(fps * clip_duration_seconds), also when the product is not an
\* integer.
C15_FramesRemainingIsRounded ==
    [][(Len(clips') = Len(clips) + 1)
          => clip_frames_remaining' = RoundHalves(fps * clip_duration)]_vars

\* C16: a confirmed match on a frame that leaves the session recording
\* (the session is active and the write of the frame does not close it)
\* opens no writer and leaves clip_frames_remaining at what the write made
\* it; a confirmed match on a frame that leaves no session (none was
\* active, or the write of the frame closed it) opens one new session.
C16_MatchWhileRecordingIsIgnored ==
    [][(Len(matches') > Len(matches))
          => IF current_clip_writer # None /\ clip_frames_remaining - 1 > 0
             THEN /\ Len(clips') = Len(clips)
                  /\ current_clip_writer' = current_clip_writer
                  /\ clip_frames_remaining' = clip_frames_remaining - 1
             ELSE /\ Len(clips') = Len(clips) + 1
                  /\ current_clip_writer' = Len(clips')
                  /\ clips'[Len(clips')] = [written |-> 0, released |-> 0]
                  /\ clip_frames_remaining'
                        = ClipFrames(fps, clip_duration)]_vars

\* The first session has closed and the match after it opened a second.
C16_Witness ==
    /\ Len(clips) = 2
    /\ clips[1].released = 1
    /\ clips[2].released = 0
    /\ current_clip_writer = 2
    /\ Len(matches) = 2

\* C17: the frame indices of the records of the detection history are
\* non-decreasing in history order, after any sequence of process_video
\* calls.
C17_HistoryFramesNonDecreasing ==
    \A i, j \in DOMAIN matches :
        i <= j => matches[i].frame <= matches[j].frame

\* C18: once stop() has set the stop flag nothing makes it false again,
\* and a step that changes the pause flag, which only pause() and resume()
\* take, changes nothing else.
C18_StopIsTerminal ==
    /\ [][stop_event => stop_event']_vars
    /\ [][(pause_event' # pause_event)
             => UNCHANGED << stop_event, now, load_vars, face_comparisons,
                             aux_vars, config_vars, reference_encodings,
                             history_vars, clip_vars, pc, local_vars,
                             callback_vars, report_vars, loop_exit, calls,
                             retval >>]_vars

\* stop() and then pause() were called during a run that had read a frame.
C18_Witness ==
    /\ stop_event
    /\ pause_event
    /\ pc = "while"
    /\ frames_read >= 1

\* C19: a run that writes its report writes it to a file that no earlier
\* run wrote, whenever the runs complete.
C19_ReportFilesDistinct ==
    [][(~report.called /\ report'.called /\ report'.written)
          => report'.path \notin report_files]_vars

C21_TrajectoryLengthIsMatchCount ==
    /\ [][(pc \in LoopStates /\ pc' # "idle")
             => /\ Len(detection_path') >= Len(detection_path)
                /\ SubSeq(detection_path', 1, Len(detection_path))
                      = detection_path]_vars
    /\ [](pc = "while" => Len(detection_path) = Len(matches))
\* C22: a report write that fails is caught in generate_report: the call
\* still returns, with the number of matches it confirmed (on the first
\* call of an engine, the length of the history), and the failed write
\* changes neither the detection history nor the report files.
C22_FailedReportWriteIsCaught ==
    [][(~report.called /\ report'.called /\ ~report'.written)
          => /\ pc' = "done"
             /\ retval' = match_count
             /\ calls = 1 => retval' = Len(matches')
             /\ UNCHANGED << history_vars, report_files >>]_vars

\* A run that confirmed a match and consumed its video returned 1 although
\* its report could not be written.
C22_Witness ==
    /\ pc = "done"
    /\ loop_exit = "exhausted"
    /\ report.called
    /\ ~report.written
    /\ report_files = {}
    /\ retval = 1
    /\ Len(matches) = 1
\* n * sum(x ** 2) - sum(x) ** 2 is n ** 2 times the variance of x.
ScaledVariance(gray) ==
    Len(gray) * SumOf([i \in DOMAIN gray |-> gray[i] * gray[i]])
        - SumOf(gray) * SumOf(gray)

\* The square of the threshold, on the scale of ScaledVariance.
ScaledThreshold(gray, threshold) ==
    threshold * threshold * Len(gray) * Len(gray)

\* C23: _detect_mask reports a mask iff the standard deviation of the grey
\* levels of the face region is strictly below mask_std_threshold; a
\* deviation equal to the threshold is reported as no mask.
C23_MaskIffStdBelowThreshold ==
    has_mask # "none"
        => /\ has_mask = "True"
                <=> /\ mask_std_threshold > 0
                    /\ ScaledVariance(face_region)
                          < ScaledThreshold(face_region, mask_std_threshold)
           /\ (ScaledVariance(face_region)
                  = ScaledThreshold(face_region, mask_std_threshold))
                => has_mask = "False"

\* The region <<0, 40>> has the standard deviation 20, the threshold, and
\* was reported as no mask.
C23_Witness ==
    /\ face_region = << 0, 40 >>
    /\ mask_std_threshold = 20
    /\ has_mask = "False"
\* C24: under every sequence of UI events and worker completions, no
\* process_video call starts on an engine on which an earlier call has
\* not returned: no engine has two calls in progress.
C24_NoOverlapOnOneEngine ==
    \A e \in DOMAIN engines : engines[e].running <= 1
\* C25: while a session is active every iteration that consumes a frame,
\* analysed or not, matched or not, writes one frame to the clip and takes
\* one from clip_frames_remaining, and it does so before the test of line
\* 154 and before the analysis: the session stays open with one frame
\* less to go, or the write closes it, and a session that a match on the
\* frame starts holds no frame yet.
C25_ActiveSessionGetsEveryFrame ==
    [][(frames_read' = frames_read + 1)
          => /\ \A i \in DOMAIN clips' \ DOMAIN clips :
                    clips'[i] = [written |-> 0, released |-> 0]
             /\ current_clip_writer # None
                  => LET w == current_clip_writer
                     IN  /\ clips'[w].written = clips[w].written + 1
                         /\ IF clip_frames_remaining - 1 > 0
                            THEN /\ current_clip_writer' = w
                                 /\ clips'[w].released = 0
                                 /\ clip_frames_remaining'
                                       = clip_frames_remaining - 1
                            ELSE /\ clips'[w].released = 1
                                 /\ \/ /\ current_clip_writer' = None
                                       /\ clip_frames_remaining'
                                             = clip_frames_remaining - 1
                                    \/ /\ current_clip_writer' = Len(clips')
                                       /\ Len(clips') = Len(clips) + 1]_vars

\* A session of 3 frames started on frame 0 of the first call; frame 1,
\* not analysed, and frame 0 of the second call, analysed, were written to
\* it and one frame is left to go.
C25_Witness ==
    /\ frame_skip = 2
    /\ calls = 2
    /\ pc = "while"
    /\ current_frame = 1
    /\ Len(clips) = 1
    /\ clips[1] = [written |-> 2, released |-> 0]
    /\ current_clip_writer = 1
    /\ clip_frames_remaining = 1
\* The sessions that the step closes.
ClosedByStep ==
    { w \in DOMAIN clips : clips[w].released = 0 /\ clips'[w].released = 1 }

\* C26: a session started with clip_frames_remaining = N closes after N
\* frame-consuming iterations with N frames written, for every N that
\* _start_video_clip produces.  A session starts with no frame written
\* and N to go; while it stays open the frames written and the frames to
\* go add up to N; so it closes with N frames written iff the frames
\* written when it closes are those written before plus those to go.
C26_SessionClosesAfterNFrames ==
    /\ [][(Len(clips') = Len(clips) + 1)
             => /\ clips'[Len(clips')].written = 0
                /\ clip_frames_remaining' = ClipFrames(fps, clip_duration)]_vars
    /\ [][(current_clip_writer # None
              /\ current_clip_writer' = current_clip_writer)
             => clips'[current_clip_writer].written + clip_frames_remaining'
                   = clips[current_clip_writer].written
                        + clip_frames_remaining]_vars
    /\ [][\A w \in ClosedByStep :
               clips'[w].written
                  = clips[w].written + clip_frames_remaining]_vars
\* C27: the callbacks of one call are made in frame order.  The progress
\* values, the logged frame indices over total_frames, are strictly
\* increasing and lie in [0, 1); each is the index of the frame just
\* processed over total_frames, and that frame is the one handed to the
\* frame callback.
C27_ProgressInFrameOrder ==
    /\ [](\A i, j \in DOMAIN progress_log :
             i < j => progress_log[i] * total_frames
                         < progress_log[j] * total_frames)
    /\ [](\A i \in DOMAIN progress_log :
             0 <= progress_log[i] /\ progress_log[i] < total_frames)
    /\ [](\A i, j \in DOMAIN frame_log :
             i < j => frame_log[i] < frame_log[j])
    /\ [][(pc \in LoopStates /\ progress_log' # progress_log)
             => /\ progress_log' = Append(progress_log, current_frame)
                /\ frame_log' = Append(frame_log, current_frame)
                /\ total_frames' = total_frames
                /\ current_frame' = current_frame + 1]_vars

\* Both frames of a video of 2 frames were analysed: the progress values
\* were 0/2 and 1/2.
C27_Witness ==
    /\ total_frames = 2
    /\ progress_log = << 0, 1 >>
    /\ frame_log = << 0, 1 >>
    /\ pc = "done"
\* C28: the trajectory is run-scoped: when a process_video call starts
\* its frame loop, the trajectory holds no point of an earlier call on the
\* engine.
C28_TrajectoryIsRunScoped ==
    [][(calls' = calls + 1 /\ pc' = "while") => detection_path' = << >>]_vars
\* s is t with elements appended, or t itself.
Extends(s, t) == Len(s) >= Len(t) /\ SubSeq(s, 1, Len(t)) = t

\* C29: matches and report_data are equal, element for element and in
\* order, in every state, and a step changes them only by appending.
C29_HistoryListsAgree ==
    /\ [](matches = report_data)
    /\ [][Extends(matches', matches)
             /\ Extends(report_data', report_data)]_vars

\* Two records, of different frames, are in both lists when the second
\* run on the engine has returned.
C29_Witness ==
    /\ Len(matches) = 2
    /\ matches[1].frame # matches[2].frame
    /\ report_data = matches
    /\ calls = 2
    /\ pc = "done"
\* The detection threads that are inside process_video.
Processing == { w \in DOMAIN workers : workers[w].at = "process_video" }

\* C30: under every sequence of UI events at most one detection thread is
\* executing process_video; Stop followed by Start Detection leaves no
\* two workers running at once.
C30_AtMostOneWorker == Cardinality(Processing) <= 1
\* The records that the step appends to the history.
NewRecords == (Len(matches) + 1) .. Len(matches')

\* C31: distinct detection records of a run never share an image path.
\* The records of different iterations of a run have different frame
\* indices, so different file names; the records that an iteration
\* appends, those of the matched faces of one frame, are to have
\* different file names too.
C31_ImagePathsDistinct ==
    [][\A i, j \in NewRecords :
           i # j => ImagePath(now, matches'[i].frame)
                       # ImagePath(now, matches'[j].frame)]_vars
\* C32: every detection record that a process_video call appends has the
\* index of the frame being processed, which is a multiple of frame_skip,
\* at least 0 and below total_frames; report_data gets the same record.
C32_RecordFrameIsSampledAndInRange ==
    [][\A i \in NewRecords :
           /\ matches'[i].frame = current_frame
           /\ matches'[i].frame % frame_skip = 0
           /\ 0 <= matches'[i].frame
           /\ matches'[i].frame < total_frames
           /\ report_data'[i] = matches'[i]]_vars

\* With frame_skip 1 the first call recorded a match on the first and on
\* the last frame of a video of 2 frames.
C32_Witness ==
    /\ frame_skip = 1
    /\ calls = 1
    /\ total_frames = 2
    /\ Len(matches) = 2
    /\ matches[1].frame = 0
    /\ matches[2].frame = 1
\* C33: the engine never clears the stop flag, so a process_video call
\* that opens its video after stop() was called starts with the flag set,
\* consumes no frame and confirms no match, and when its loop test has
\* seen the flag it returns 0 after generate_report, whose report, when
\* the write succeeds, lists the whole history, the records of the
\* earlier runs.
C33_StoppedEngineRunsNoFrame ==
    /\ [][stop_event => stop_event']_vars
    /\ [][(stop_event /\ calls' = calls + 1 /\ pc' = "while")
             => (stop_event' /\ frames_read' = 0 /\ match_count' = 0)]_vars
    /\ [][(stop_event /\ pc = "while")
             => /\ pc' \in {"while", "done"}
                /\ frames_read' = frames_read
                /\ match_count' = match_count
                /\ UNCHANGED history_vars]_vars
    /\ [][(stop_event /\ pc = "while" /\ frames_read = 0 /\ pc' = "done")
             => /\ retval' = 0
                /\ report'.called
                /\ report'.written
                     => /\ report'.records = report_data
                        /\ report'.path \in report_files']_vars

\* The second call on a stopped engine, on a video of 2 frames, read no
\* frame and returned 0; its report lists the record of the first run.
C33_Witness ==
    /\ calls = 2
    /\ pc = "done"
    /\ loop_exit = "stop"
    /\ stop_event
    /\ total_frames = 2
    /\ frames_read = 0
    /\ retval = 0
    /\ Len(report_data) = 1
    /\ report.written
    /\ report.records = report_data
====
